---- MODULE Spec2Model ----
(***************************************************************************)
(* Event-registration tooling: the data preparation that writes the        *)
(* candidate files (prepare_data/create_files.py), the prize draw with its *)
(* persistent winner ledger (random_sort_visiteurs/run_lottery.py) and the *)
(* long-to-wide pivot of the survey answers                                *)
(* (explode_form_responses/pivot_form_responses_participants.py).          *)
(*                                                                         *)
(* A table (DataFrame) is a sequence of rows; a row is a record with one   *)
(* field per column.  A cell of a column the table does not have, or an    *)
(* empty cell, holds NaN (NaNNum in a numeric column).  The lottery never  *)
(* reads the email column, so lottery rows do not carry it.                *)
(***************************************************************************)
EXTENDS Integers, Sequences, FiniteSets, TLC

\* ------------------------------------------------------------------ bounds
MaxLignes == 2
MaxInstant == 2

\* ------------------------------------------------------------- cell values
NaN == "NaN"
NaNNum == 0 - 1

Noms == {"Alice", "Bob"}

ColNom == "nom_du_participant"
ColRole == "ticket_devenement"
ColTicket == "numero_ticket"
ColStatus == "status"
ColHeure == "heure_du_tirage"
ColonnesCandidats == {ColNom, ColRole, ColTicket, ColStatus}

\* ------------------------------------------------------- table helpers
Column(df, col) == {df[i][col] : i \in 1..Len(df)}

CountRows(df, keep(_)) == Cardinality({i \in 1..Len(df) : keep(df[i])})

\* sequences of length 0..n over S
SeqsUpTo(S, n) == UNION {[1..k -> S] : k \in 0..n}

\* ------------------------------------------------------------------ files
AbsentFile == [existe |-> FALSE, colonnes |-> {}, lignes |-> <<>>]
ExcelFile(cols, rows) == [existe |-> TRUE, colonnes |-> cols, lignes |-> rows]

\* ------------------------------------------- prepare_data/create_files.py
\* Cells of the raw export, by representative values.
TicketsBruts == {"Visiteur", "Bénévole"}
StatusBruts == {"Présent"}
LignesBrutes ==
    {[nom_du_participant |-> n, ticket_devenement |-> t, status |-> s] :
        n \in Noms, t \in TicketsBruts, s \in StatusBruts}
TablesBrutes == SeqsUpTo(LignesBrutes, MaxLignes)

\* Series.astype(str).str.lower()
StrLower(s) ==
    CASE s = "Visiteur" -> "visiteur"
      [] s = "VISITEUR" -> "visiteur"
      [] s = "Bénévole" -> "bénévole"
      [] s = "Benevole" -> "benevole"
      [] s = "Commanditaire" -> "commanditaire"
      [] s = "Visiteur et Commanditaire" -> "visiteur et commanditaire"
      [] s = "Exposant" -> "exposant"
      [] s = NaN -> "nan"
      [] OTHER -> s

\* the keywords of the normalisation that occur as substrings of s
MotsClefs(s) ==
    CASE s = "visiteur" -> {"visiteur"}
      [] s = "bénévole" -> {"bénévole"}
      [] s = "benevole" -> {"benevole"}
      [] s = "commanditaire" -> {"commanditaire"}
      [] s = "visiteur et commanditaire" -> {"visiteur", "commanditaire"}
      [] OTHER -> {}

\* Series.str.contains(pat), pat an alternation of keywords
StrContains(s, pat) == MotsClefs(s) \cap pat # {}

\* np.select(conditions, choices, default='Autre'): the first true condition
NormalizeTicket(cell) ==
    LET s == StrLower(cell)
    IN  IF StrContains(s, {"visiteur"}) THEN "Visiteur"
        ELSE IF StrContains(s, {"bénévole", "benevole"}) THEN "Benevole"
        ELSE IF StrContains(s, {"commanditaire"}) THEN "Commanditaire"
        ELSE "Autre"

\* Series.str.strip()
StrStrip(s) ==
    CASE s = " Présent " -> "Présent"
      [] s = "Présent " -> "Présent"
      [] OTHER -> s

\* fillna("absent").astype(str).str.strip(), then replace({...})
CleanStatus(cell) ==
    LET s == StrStrip(IF cell = NaN THEN "absent" ELSE cell)
    IN  CASE s = "Présent" -> "present"
          [] s = "Inscrit" -> "inscrit"
          [] OTHER -> s

\* load_and_clean_data numbers the rows; the two cleaning passes follow
LoadAndCleanData(brut) ==
    [i \in 1..Len(brut) |->
        [nom_du_participant |-> brut[i].nom_du_participant,
         ticket_devenement |-> NormalizeTicket(brut[i].ticket_devenement),
         numero_ticket |-> i,
         status |-> CleanStatus(brut[i].status)]]

\* FilterPresent with a mask on the role alone
FilterSansStatus(df, ticket_name) ==
    SelectSeq(df, LAMBDA r : r.ticket_devenement = ticket_name)

\* one iteration of the loop of filter_and_save_participants
FilterPresent(df, ticket_name) ==
    SelectSeq(df, LAMBDA r : r.ticket_devenement = ticket_name /\ r.status = "present")

CandidateFile(brut, ticket_name) ==
    ExcelFile(ColonnesCandidats, FilterPresent(LoadAndCleanData(brut), ticket_name))

\* --------------------------------------- random_sort_visiteurs/run_lottery.py
ColonnesGagnants == ColonnesCandidats \cup {ColHeure}

\* LoadAndConcatenateParticipants with the two reads in one try block: the
\* volunteers are not read when the visitors' file is missing
LoadAndConcatenateUnSeulTry(visiteurs, benevoles) ==
    IF visiteurs.existe
    THEN visiteurs.lignes \o (IF benevoles.existe THEN benevoles.lignes ELSE <<>>)
    ELSE <<>>

LoadAndConcatenateParticipants(visiteurs, benevoles) ==
    (IF visiteurs.existe THEN visiteurs.lignes ELSE <<>>)
    \o (IF benevoles.existe THEN benevoles.lignes ELSE <<>>)

\* Series.value_counts() of the name column: NaN is not counted
ValueCount(df, nom) == CountRows(df, LAMBDA r : r[ColNom] = nom)

\* PersonnesAExclureAutres with the volunteers' threshold of two wins
PersonnesAExclureAutresDeuxFois(df) ==
    LET gagnants_autres == SelectSeq(df, LAMBDA r : r[ColRole] # "Benevole")
    IN  {n \in Column(gagnants_autres, ColNom) : ValueCount(gagnants_autres, n) >= 2}

PersonnesAExclureAutres(df) ==
    Column(SelectSeq(df, LAMBDA r : r[ColRole] # "Benevole"), ColNom)

\* BenevolesAExclure with the threshold of one win
BenevolesAExclureDesUn(df) ==
    Column(SelectSeq(df, LAMBDA r : r[ColRole] = "Benevole"), ColNom) \ {NaN}

BenevolesAExclure(df) ==
    LET gagnants_benevoles == SelectSeq(df, LAMBDA r : r[ColRole] = "Benevole")
    IN  {n \in Column(gagnants_benevoles, ColNom) \ {NaN} :
            ValueCount(gagnants_benevoles, n) >= 2}

\* GetIneligibleParticipants returning None for the ledger when a column lacks
GetIneligibleDegradeSansDf(fichier) ==
    IF ~fichier.existe THEN [personnes |-> {}, df |-> AbsentFile]
    ELSE IF fichier.lignes = <<>> THEN [personnes |-> {}, df |-> fichier]
    ELSE IF ColNom \notin fichier.colonnes \/ ColRole \notin fichier.colonnes
         THEN [personnes |-> {}, df |-> AbsentFile]
    ELSE [personnes |-> PersonnesAExclureAutres(fichier.lignes)
                            \cup BenevolesAExclure(fichier.lignes),
          df |-> fichier]

\* returns (personnes_ineligibles, df_gagnants_existants); df "None" is AbsentFile
GetIneligibleParticipants(fichier) ==
    IF ~fichier.existe THEN [personnes |-> {}, df |-> AbsentFile]
    ELSE IF fichier.lignes = <<>> THEN [personnes |-> {}, df |-> fichier]
    ELSE IF ColNom \notin fichier.colonnes \/ ColRole \notin fichier.colonnes
         THEN [personnes |-> {}, df |-> fichier]
    ELSE [personnes |-> PersonnesAExclureAutres(fichier.lignes)
                            \cup BenevolesAExclure(fichier.lignes),
          df |-> fichier]

\* FiltreNom without the negation of the mask
FiltreNomSansNegation(df_entree, personnes) ==
    SelectSeq(df_entree, LAMBDA r : r[ColNom] \in personnes)

FiltreNom(df_entree, personnes) ==
    SelectSeq(df_entree, LAMBDA r : r[ColNom] \notin personnes)

\* FiltreTicket without its exclusion
FiltreTicketSansExclusion(df, df_gagnants) == df

\* FiltreTicket falling back on the names of the ledger when it has no
\* ticket column
FiltreTicketRepliSurNom(df, df_gagnants) ==
    IF df_gagnants.existe /\ ColTicket \in df_gagnants.colonnes
    THEN SelectSeq(df, LAMBDA r : r[ColTicket] \notin Column(df_gagnants.lignes, ColTicket))
    ELSE IF df_gagnants.existe
    THEN SelectSeq(df, LAMBDA r : r[ColNom] \notin Column(df_gagnants.lignes, ColNom))
    ELSE df

FiltreTicket(df, df_gagnants) ==
    IF df_gagnants.existe /\ ColTicket \in df_gagnants.colonnes
    THEN SelectSeq(df, LAMBDA r : r[ColTicket] \notin Column(df_gagnants.lignes, ColTicket))
    ELSE df

\* Eligibles with the ticket rule reading only the newest ledger row
EligiblesDernierTicket(df_entree, personnes, df_gagnants) ==
    LET lignes == df_gagnants.lignes
    IN  SelectSeq(FiltreNom(df_entree, personnes), LAMBDA r :
            lignes = <<>> \/ r[ColTicket] # lignes[Len(lignes)][ColTicket])

\* Eligibles with the result of the ticket filter not kept
EligiblesFiltreTicketPerdu(df_entree, personnes, df_gagnants) ==
    FiltreNom(df_entree, personnes)

Eligibles(df_entree, personnes, df_gagnants) ==
    FiltreTicket(FiltreNom(df_entree, personnes), df_gagnants)

\* --- the operator's answer to input(), a sequence of characters
Chiffres == <<"0", "1", "2", "3", "4", "5", "6", "7", "8", "9">>
ChiffreDe(n) == Chiffres[n + 1]
ValeurChiffre(c) == (CHOOSE i \in 1..Len(Chiffres) : Chiffres[i] = c) - 1
EstChiffre(c) == \E i \in 1..Len(Chiffres) : Chiffres[i] = c

RECURSIVE StripLeft(_)
StripLeft(s) == IF s # <<>> /\ Head(s) = " " THEN StripLeft(Tail(s)) ELSE s
RECURSIVE StripRight(_)
StripRight(s) ==
    IF s # <<>> /\ s[Len(s)] = " " THEN StripRight(SubSeq(s, 1, Len(s) - 1)) ELSE s

Signe(s) == s # <<>> /\ Head(s) \in {"-", "+"}
CorpsNombre(s) == LET t == StripRight(StripLeft(s)) IN IF Signe(t) THEN Tail(t) ELSE t

\* int(str) raises ValueError unless the text is an optionally signed run of digits
IntRaises(s) ==
    LET c == CorpsNombre(s) IN c = <<>> \/ \E i \in 1..Len(c) : ~EstChiffre(c[i])

RECURSIVE ValeurChiffres(_)
ValeurChiffres(c) ==
    IF c = <<>> THEN 0
    ELSE 10 * ValeurChiffres(SubSeq(c, 1, Len(c) - 1)) + ValeurChiffre(c[Len(c)])

IntOf(s) ==
    LET t == StripRight(StripLeft(s))
    IN  IF Signe(t) /\ Head(t) = "-" THEN 0 - ValeurChiffres(CorpsNombre(s))
        ELSE ValeurChiffres(CorpsNombre(s))

Saisies ==
    {<<"a">>, <<"1", ".", "5">>, <<"-", "1">>}
    \cup {<<ChiffreDe(n)>> : n \in 0..(MaxLignes + 1)}

\* Sample with replacement
SampleAvecRemise(df, n) ==
    {[i \in 1..n |-> df[idx[i]]] : idx \in [1..n -> 1..Len(df)]}

\* --- DataFrame.sample(n): n rows at distinct positions, in any order
Sample(df, n) ==
    {[i \in 1..n |-> df[idx[i]]] :
        idx \in {f \in [1..n -> 1..Len(df)] :
                    \A i, j \in 1..n : i # j => f[i] # f[j]}}

\* Gagnants drawing whoever is left when the pool is too small
GagnantsPartiel(eligibles, nb) ==
    Sample(eligibles, IF Len(eligibles) < nb THEN Len(eligibles) ELSE nb)

\* --- lines 111-115: no draw when the pool is too small, else a sample
Gagnants(eligibles, nb) ==
    IF Len(eligibles) < nb THEN {} ELSE Sample(eligibles, nb)

\* --- datetime.now().strftime("%Y-%m-%d %H:%M:%S"): the instant, cut to the second
TicsParSeconde == 2
Instants == 0..MaxInstant
Strftime(t) == t \div TicsParSeconde

Horodater(df, heure) ==
    [i \in 1..Len(df) |->
        [c \in ColonnesGagnants |-> IF c = ColHeure THEN heure ELSE df[i][c]]]

\* FinalGagnants writing the new winners over the ledger
FinalGagnantsEcrase(df_gagnants, nouveaux) == ExcelFile(ColonnesGagnants, nouveaux)

\* FinalGagnants with the draw time set on the whole table, after the concat
FinalGagnantsHorodateApres(df_gagnants, nouveaux) ==
    IF df_gagnants.existe /\ df_gagnants.lignes # <<>> /\ nouveaux # <<>>
    THEN ExcelFile(df_gagnants.colonnes \cup ColonnesGagnants,
                   Horodater(df_gagnants.lignes, nouveaux[1][ColHeure]) \o nouveaux)
    ELSE ExcelFile(ColonnesGagnants, nouveaux)

\* --- pd.concat of the ledger read and the new winners, or the winners alone
FinalGagnants(df_gagnants, nouveaux) ==
    IF df_gagnants.existe /\ df_gagnants.lignes # <<>>
    THEN ExcelFile(df_gagnants.colonnes \cup ColonnesGagnants,
                   df_gagnants.lignes \o nouveaux)
    ELSE ExcelFile(ColonnesGagnants, nouveaux)

\* ---------------- explode_form_responses/pivot_form_responses_participants.py
MaxReponses == 3

\* identity cells of a row of the cleaned export: a participant's first row
\* carries both, a continuation row carries none, a damaged row only one
Identites ==
    {<<"Alice", "a@x">>, <<"Alice", "b@x">>, <<"Bob", "b@x">>, <<NaN, NaN>>,
     <<"Bob", NaN>>}
Reponses == {"Oui", "Non", NaN}
LignesReponses ==
    {[nom_du_participant |-> id[1], email |-> id[2], reponses_des_participants |-> r] :
        id \in Identites, r \in Reponses}
TablesReponses == SeqsUpTo(LignesReponses, MaxReponses)

\* DataFrame.fillna(method='ffill'): every column, the last value seen above
RECURSIVE FFillCell(_, _, _)
FFillCell(df, i, col) ==
    IF df[i][col] # NaN \/ i = 1 THEN df[i][col] ELSE FFillCell(df, i - 1, col)

\* LoadAndFillNaData without the fill
LoadSansRemplissage(df) == df

LoadAndFillNaData(df) ==
    [i \in 1..Len(df) |-> [col \in DOMAIN df[i] |-> FFillCell(df, i, col)]]

\* groupby([nom, email]).cumcount(): the rank of the row in its group; a row
\* with a missing key is in no group and gets NaN (pandas >= 1.5)
CumCount(df, i) ==
    IF df[i].nom_du_participant = NaN \/ df[i].email = NaN THEN NaNNum
    ELSE Cardinality({j \in 1..(i - 1) :
            /\ df[j].nom_du_participant = df[i].nom_du_participant
            /\ df[j].email = df[i].email})

DropNaReponses(df) ==
    SelectSeq(df, LAMBDA r : r.reponses_des_participants # NaN)

GroupDataByNamEmail(df_filled) ==
    LET df_responses == DropNaReponses(df_filled)
    IN  [i \in 1..Len(df_responses) |->
            [nom_du_participant |-> df_responses[i].nom_du_participant,
             email |-> df_responses[i].email,
             reponses_des_participants |-> df_responses[i].reponses_des_participants,
             num_reponse |-> CumCount(df_responses, i)]]

\* --- pivot_table: rows with a missing index or column key are left out
LignesPivotables(df) ==
    SelectSeq(df, LAMBDA r :
        r.nom_du_participant # NaN /\ r.email # NaN /\ r.num_reponse # NaNNum)

\* IndexPivot grouping by name alone, the email being the first one seen
IndexPivotParNom(df) ==
    {<<df[i].nom_du_participant, df[i].email>> : i \in
        {k \in 1..Len(df) :
            \A j \in 1..(k - 1) : df[j].nom_du_participant # df[k].nom_du_participant}}

IndexPivot(df) ==
    {<<df[i].nom_du_participant, df[i].email>> : i \in 1..Len(df)}

\* the index of the result is sorted; strings compare by code point
Rang(s) ==
    CASE s = "Alice" -> 1 [] s = "Bob" -> 2 [] s = "a@x" -> 1 [] s = "b@x" -> 2
      [] OTHER -> 0

Avant(p, q) == Rang(p[1]) < Rang(q[1]) \/ (p[1] = q[1] /\ Rang(p[2]) < Rang(q[2]))

SortIndex(paires) ==
    [k \in 1..Cardinality(paires) |->
        CHOOSE p \in paires : Cardinality({q \in paires : Avant(q, p)}) = k - 1]

\* aggfunc="first": the first non-null value of the group, NaN for an empty group
AggFirst(df, paire, num) ==
    LET groupe == SelectSeq(df, LAMBDA r :
            /\ <<r.nom_du_participant, r.email>> = paire
            /\ r.num_reponse = num)
    IN  IF groupe = <<>> THEN NaN ELSE groupe[1].reponses_des_participants

\* the rename of the answer columns applies to int labels only: with a NaN in
\* num_reponse the column is float and its labels stay 0.0, 1.0, ...
LabelsRenommes(df_responses) ==
    \A i \in 1..Len(df_responses) : df_responses[i].num_reponse # NaNNum

ColonneReponse(num, renomme) ==
    IF renomme THEN <<"reponse_", num + 1>> ELSE <<"", num>>

PivotResponses(df_responses) ==
    LET df == LignesPivotables(df_responses)
        index == SortIndex(IndexPivot(df))
        nums == {df[i].num_reponse : i \in 1..Len(df)}
        renomme == LabelsRenommes(df_responses)
    IN  [k \in 1..Len(index) |->
            [nom_du_participant |-> index[k][1],
             email |-> index[k][2],
             reponses |->
                [c \in {ColonneReponse(n, renomme) : n \in nums} |->
                    AggFirst(df, index[k], c[2] - (IF renomme THEN 1 ELSE 0))]]]

\* ------------------------------------------------------------------ state
VARIABLES
    input_file,             \* input_files/event_registration.xlsx (raw rows)
    fichier_visiteurs,      \* output_files/event_registration_visiteurs.xlsx
    fichier_benevoles,      \* output_files/event_registration_benevoles.xlsx
    fichier_gagnants,       \* output_files/gagnants_combines.xlsx, the ledger
    df_entree,              \* locals of the last run of run_lottery.main
    personnes_ineligibles,
    df_gagnants_existants,
    df_eligibles,
    saisie,
    df_nouveaux_gagnants,
    issue,                  \* the return of main that the last run took
    fichier_cleaned,        \* output_files/event_registration_cleaned.xlsx
    df_filled,              \* locals of pivot_table_and_save_to_excel
    df_responses,
    df_pivot,
    etape_pivot,
    executions              \* the runs of run_lottery.main that are under way at once

fichiers == <<input_file, fichier_visiteurs, fichier_benevoles, fichier_gagnants>>
locaux == <<df_entree, personnes_ineligibles, df_gagnants_existants, df_eligibles,
            saisie, df_nouveaux_gagnants, issue>>
pivot == <<fichier_cleaned, df_filled, df_responses, df_pivot, etape_pivot>>
vars == <<fichiers, locaux, pivot, executions>>

NonLue == <<"non lue">>

\* --- ledgers a first run can find: none, an empty one, one row written by an
\* --- earlier run or by an earlier version of the tool that lacked some columns
RolesGagnants == {"Visiteur", "Benevole"}
ColonnesHistoriques ==
    {ColonnesGagnants, ColonnesGagnants \ {ColNom}, ColonnesGagnants \ {ColRole},
     ColonnesGagnants \ {ColTicket}, ColonnesGagnants \ {ColNom, ColRole, ColTicket}}

LigneHistorique(cols, role) ==
    [c \in ColonnesGagnants |->
        CASE c \notin cols -> IF c \in {ColTicket, ColHeure} THEN NaNNum ELSE NaN
          [] c = ColNom -> "Alice"
          [] c = ColRole -> role
          [] c = ColTicket -> 1
          [] c = ColStatus -> "present"
          [] c = ColHeure -> 0]

GagnantsInitiaux ==
    {AbsentFile, ExcelFile(ColonnesGagnants, <<>>)}
    \cup {ExcelFile(ColonnesGagnants, <<LigneHistorique(ColonnesGagnants, role)>>) :
            role \in RolesGagnants}
    \cup {ExcelFile(cols, <<LigneHistorique(cols, "Benevole")>>) :
            cols \in ColonnesHistoriques}

LocauxVides(etape) ==
    /\ df_entree = <<>>
    /\ personnes_ineligibles = {}
    /\ df_gagnants_existants = AbsentFile
    /\ df_eligibles = <<>>
    /\ saisie = NonLue
    /\ df_nouveaux_gagnants = <<>>
    /\ issue = etape

\* --- the runs of main that can be under way at once, each with the locals that
\* --- it holds between its read of the ledger and its write
Processus == {1, 2}
ExecutionAuDebut ==
    [etape |-> "debut", df_gagnants_existants |-> AbsentFile,
     df_nouveaux_gagnants |-> <<>>, ecritures_vues |-> 0, rang |-> 0]
PasDExecutions == [p \in Processus |-> ExecutionAuDebut]

PivotAuRepos ==
    /\ fichier_cleaned = <<>>
    /\ df_filled = <<>>
    /\ df_responses = <<>>
    /\ df_pivot = <<>>
    /\ etape_pivot = "repos"

Init ==
    /\ PivotAuRepos
    /\ input_file \in TablesBrutes
    /\ \E v, b \in BOOLEAN :
        /\ ~(v /\ b)
        /\ fichier_visiteurs = IF v THEN CandidateFile(input_file, "Visiteur") ELSE AbsentFile
        /\ fichier_benevoles = IF b THEN CandidateFile(input_file, "Benevole") ELSE AbsentFile
    /\ fichier_gagnants \in GagnantsInitiaux
    /\ LocauxVides("init")
    /\ executions = PasDExecutions

Retour(entree, lu, eligibles, texte, nouveaux, etape) ==
    /\ df_entree' = entree
    /\ personnes_ineligibles' = lu.personnes
    /\ df_gagnants_existants' = lu.df
    /\ df_eligibles' = eligibles
    /\ saisie' = texte
    /\ df_nouveaux_gagnants' = nouveaux
    /\ issue' = etape

AucunVide == [personnes |-> {}, df |-> AbsentFile]

\* --- create_files.main: the candidate files are rewritten from the raw export
PrepareData ==
    /\ fichier_visiteurs' = CandidateFile(input_file, "Visiteur")
    /\ fichier_benevoles' = CandidateFile(input_file, "Benevole")
    /\ UNCHANGED <<input_file, fichier_gagnants, pivot, executions>>
    /\ Retour(<<>>, AucunVide, <<>>, NonLue, <<>>, "prepare")

\* --- run_lottery.main, one definition per return
Entree == LoadAndConcatenateParticipants(fichier_visiteurs, fichier_benevoles)
Lu == GetIneligibleParticipants(fichier_gagnants)
EligiblesDuTirage == Eligibles(Entree, Lu.personnes, Lu.df)

MainAucunParticipant ==
    /\ Entree = <<>>
    /\ Retour(Entree, AucunVide, <<>>, NonLue, <<>>, "aucun_participant")
    /\ UNCHANGED <<fichiers, pivot, executions>>

MainPlusDeTickets ==
    /\ Entree # <<>>
    /\ EligiblesDuTirage = <<>>
    /\ Retour(Entree, Lu, EligiblesDuTirage, NonLue, <<>>, "plus_de_tickets")
    /\ UNCHANGED <<fichiers, pivot, executions>>

MainSaisieInvalide ==
    /\ Entree # <<>>
    /\ EligiblesDuTirage # <<>>
    /\ \E texte \in Saisies :
        /\ IntRaises(texte)
        /\ Retour(Entree, Lu, EligiblesDuTirage, texte, <<>>, "saisie_invalide")
    /\ UNCHANGED <<fichiers, pivot, executions>>

\* NbNonPositif letting zero through
NbNegatif(nb) == nb < 0

NbNonPositif(nb) == nb <= 0

MainNbNonPositif ==
    /\ Entree # <<>>
    /\ EligiblesDuTirage # <<>>
    /\ \E texte \in Saisies :
        /\ ~IntRaises(texte)
        /\ NbNonPositif(IntOf(texte))
        /\ Retour(Entree, Lu, EligiblesDuTirage, texte, <<>>, "nb_non_positif")
    /\ UNCHANGED <<fichiers, pivot, executions>>

\* MainPasAssez without its return: the ledger is written with no new winner
MainPasAssezSansReturn ==
    /\ Entree # <<>>
    /\ EligiblesDuTirage # <<>>
    /\ \E texte \in Saisies :
        /\ ~IntRaises(texte)
        /\ ~NbNonPositif(IntOf(texte))
        /\ Gagnants(EligiblesDuTirage, IntOf(texte)) = {}
        /\ Retour(Entree, Lu, EligiblesDuTirage, texte, <<>>, "pas_assez")
    /\ fichier_gagnants' = FinalGagnants(Lu.df, <<>>)
    /\ UNCHANGED <<input_file, fichier_visiteurs, fichier_benevoles, pivot, executions>>

MainPasAssez ==
    /\ Entree # <<>>
    /\ EligiblesDuTirage # <<>>
    /\ \E texte \in Saisies :
        /\ ~IntRaises(texte)
        /\ ~NbNonPositif(IntOf(texte))
        /\ Gagnants(EligiblesDuTirage, IntOf(texte)) = {}
        /\ Retour(Entree, Lu, EligiblesDuTirage, texte, <<>>, "pas_assez")
    /\ UNCHANGED <<fichiers, pivot, executions>>

MainTirage ==
    /\ Entree # <<>>
    /\ EligiblesDuTirage # <<>>
    /\ \E texte \in Saisies, maintenant \in Instants :
        /\ ~IntRaises(texte)
        /\ ~NbNonPositif(IntOf(texte))
        /\ \E tirage \in Gagnants(EligiblesDuTirage, IntOf(texte)) :
            LET nouveaux == Horodater(tirage, Strftime(maintenant))
            IN  /\ fichier_gagnants' = FinalGagnants(Lu.df, nouveaux)
                /\ Retour(Entree, Lu, EligiblesDuTirage, texte, nouveaux, "tirage")
    /\ UNCHANGED <<input_file, fichier_visiteurs, fichier_benevoles, pivot, executions>>

Main ==
    \/ MainAucunParticipant
    \/ MainPlusDeTickets
    \/ MainSaisieInvalide
    \/ MainNbNonPositif
    \/ MainPasAssez
    \/ MainTirage

Next == PrepareData \/ Main

Spec == Init /\ [][Next]_vars

\* --- the pivot alone: any cleaned export, then pivot_table_and_save_to_excel
LoterieAuRepos ==
    /\ input_file = <<>>
    /\ fichier_visiteurs = AbsentFile
    /\ fichier_benevoles = AbsentFile
    /\ fichier_gagnants = AbsentFile
    /\ LocauxVides("init")
    /\ executions = PasDExecutions

InitPivot ==
    /\ LoterieAuRepos
    /\ fichier_cleaned \in TablesReponses
    /\ df_filled = <<>>
    /\ df_responses = <<>>
    /\ df_pivot = <<>>
    /\ etape_pivot = "charge"

PivotTableAndSaveToExcel ==
    /\ etape_pivot = "charge"
    /\ df_filled' = LoadAndFillNaData(fichier_cleaned)
    /\ df_responses' = GroupDataByNamEmail(df_filled')
    /\ df_pivot' = PivotResponses(df_responses')
    /\ etape_pivot' = "pivot"
    /\ UNCHANGED <<fichier_cleaned, fichiers, locaux, executions>>

NextPivot == PivotTableAndSaveToExcel

SpecPivot == InitPivot /\ [][NextPivot]_vars

\* --- two runs of run_lottery.main at once on the same files: a run reads the
\* --- files and draws (lines 81-116), then writes the ledger (line 127)
TablesVisiteurs ==
    {t \in TablesBrutes : \A i \in 1..Len(t) : t[i].ticket_devenement = "Visiteur"}

InitConcurrent ==
    /\ PivotAuRepos
    /\ input_file \in TablesVisiteurs
    /\ fichier_visiteurs = CandidateFile(input_file, "Visiteur")
    /\ fichier_benevoles = CandidateFile(input_file, "Benevole")
    /\ fichier_gagnants \in GagnantsInitiaux
    /\ LocauxVides("init")
    /\ executions = PasDExecutions

EcrituresFaites == Cardinality({p \in Processus : executions[p].etape = "ecrit"})

\* a return of main before the draw: no candidate, no eligible ticket, or a
\* count that is refused
ExecRetour(p) ==
    /\ executions[p].etape = "debut"
    /\ \/ Entree = <<>>
       \/ EligiblesDuTirage = <<>>
       \/ \E texte \in Saisies :
            \/ IntRaises(texte)
            \/ ~IntRaises(texte) /\ NbNonPositif(IntOf(texte))
            \/ /\ ~IntRaises(texte)
               /\ ~NbNonPositif(IntOf(texte))
               /\ Gagnants(EligiblesDuTirage, IntOf(texte)) = {}
    /\ executions' = [executions EXCEPT ![p] =
            [etape |-> "retour",
             df_gagnants_existants |-> IF Entree = <<>> THEN AbsentFile ELSE Lu.df,
             df_nouveaux_gagnants |-> <<>>,
             ecritures_vues |-> EcrituresFaites,
             rang |-> 0]]
    /\ UNCHANGED <<fichiers, locaux, pivot>>

\* lines 81-116: the files are read, the eligible pool computed, the winners
\* drawn and stamped; nothing is written yet
ExecTirage(p) ==
    /\ executions[p].etape = "debut"
    /\ Entree # <<>>
    /\ EligiblesDuTirage # <<>>
    /\ \E texte \in Saisies, maintenant \in Instants :
        /\ ~IntRaises(texte)
        /\ ~NbNonPositif(IntOf(texte))
        /\ \E tirage \in Gagnants(EligiblesDuTirage, IntOf(texte)) :
            executions' = [executions EXCEPT ![p] =
                [etape |-> "tire",
                 df_gagnants_existants |-> Lu.df,
                 df_nouveaux_gagnants |-> Horodater(tirage, Strftime(maintenant)),
                 ecritures_vues |-> EcrituresFaites,
                 rang |-> 0]]
    /\ UNCHANGED <<fichiers, locaux, pivot>>

\* LedgerAEcrire reading the ledger again at the time of the write
LedgerAEcrireRelu(execution) ==
    FinalGagnants(GetIneligibleParticipants(fichier_gagnants).df,
                  execution.df_nouveaux_gagnants)

\* lines 122-125: the table to write, from the ledger as this run read it
LedgerAEcrire(execution) ==
    FinalGagnants(execution.df_gagnants_existants, execution.df_nouveaux_gagnants)

\* line 127: to_excel overwrites the ledger file
ExecEcriture(p) ==
    /\ executions[p].etape = "tire"
    /\ fichier_gagnants' = LedgerAEcrire(executions[p])
    /\ executions' = [executions EXCEPT ![p] =
            [@ EXCEPT !.etape = "ecrit", !.rang = EcrituresFaites + 1]]
    /\ UNCHANGED <<input_file, fichier_visiteurs, fichier_benevoles, locaux, pivot>>

NextConcurrent ==
    \E p \in Processus : ExecRetour(p) \/ ExecTirage(p) \/ ExecEcriture(p)

SpecConcurrent == InitConcurrent /\ [][NextConcurrent]_vars

\* --- the runs that find a ledger written without the ticket column
GagnantsSansTicket ==
    {ExcelFile(ColonnesGagnants \ {ColTicket},
               <<LigneHistorique(ColonnesGagnants \ {ColTicket}, role)>>) :
        role \in RolesGagnants}

InitSansTicket ==
    /\ PivotAuRepos
    /\ input_file \in TablesBrutes
    /\ \E v, b \in BOOLEAN :
        /\ ~(v /\ b)
        /\ fichier_visiteurs = IF v THEN CandidateFile(input_file, "Visiteur") ELSE AbsentFile
        /\ fichier_benevoles = IF b THEN CandidateFile(input_file, "Benevole") ELSE AbsentFile
    /\ fichier_gagnants \in GagnantsSansTicket
    /\ LocauxVides("init")
    /\ executions = PasDExecutions

SpecSansTicket == InitSansTicket /\ [][Next]_vars

\* --- main.py on a raw export with every kind of role and status: the data
\* --- preparation writes the candidate files, the lottery reads them
TicketsPipeline ==
    {"Visiteur", "Bénévole", "Commanditaire", "Visiteur et Commanditaire", "Exposant"}
StatusPipeline == {"Présent", "Inscrit", NaN}
LignesPipeline ==
    {[nom_du_participant |-> n, ticket_devenement |-> t, status |-> s] :
        n \in {"Alice"}, t \in TicketsPipeline, s \in StatusPipeline}
TablesPipeline == SeqsUpTo(LignesPipeline, MaxLignes)

InitPipeline ==
    /\ PivotAuRepos
    /\ input_file \in TablesPipeline
    /\ fichier_visiteurs = AbsentFile
    /\ fichier_benevoles = AbsentFile
    /\ fichier_gagnants \in {AbsentFile, ExcelFile(ColonnesGagnants, <<>>)}
    /\ LocauxVides("init")
    /\ executions = PasDExecutions

SpecPipeline == InitPipeline /\ [][Next]_vars

\* =================================================================== claims
\* the returns of main that come after the eligible pool is computed
ApresEligibilite ==
    {"plus_de_tickets", "saisie_invalide", "nb_non_positif", "pas_assez", "tirage"}

Tickets(df) == Column(df, ColTicket) \ {NaNNum}
LignesBenevole(df, nom) ==
    CountRows(df, LAMBDA r : r[ColNom] = nom /\ r[ColRole] = "Benevole")
LignesAutres(df, nom) ==
    CountRows(df, LAMBDA r : r[ColNom] = nom /\ r[ColRole] # "Benevole")
Prefixe(s, t) == Len(s) <= Len(t) /\ \A i \in 1..Len(s) : t[i] = s[i]
Dans(df, r) == \E i \in 1..Len(df) : df[i] = r

\* C1: after any sequence of lottery runs, no ticket id is in more than one
\* row of the winner ledger.
C1_TicketJamaisRepete ==
    LET l == fichier_gagnants.lignes
    IN  \A i, j \in 1..Len(l) :
            i # j /\ l[i][ColTicket] # NaNNum => l[i][ColTicket] # l[j][ColTicket]

\* a draw was appended to a ledger that already held a ticket of the pool
C1_Witness ==
    /\ issue = "tirage"
    /\ Len(fichier_gagnants.lignes) >= 2
    /\ \E i \in 1..Len(df_entree) :
        df_entree[i][ColTicket] \in Tickets(df_gagnants_existants.lignes)

\* C2: in every ledger state each name has at most one row with a role other
\* than Benevole and at most two rows with role Benevole.
C2_PlafondParRole ==
    \A n \in Noms :
        /\ LignesAutres(fichier_gagnants.lignes, n) <= 1
        /\ LignesBenevole(fichier_gagnants.lignes, n) <= 2

\* C3: a step never removes, changes or reorders a ledger row; rows are only
\* added after the existing ones.
C3_LedgerAppendOnly ==
    [][/\ Prefixe(fichier_gagnants.lignes, fichier_gagnants'.lignes)
       /\ fichier_gagnants.existe => fichier_gagnants'.existe
       /\ fichier_gagnants.lignes # <<>> =>
            fichier_gagnants.colonnes \subseteq fichier_gagnants'.colonnes]_vars

\* winners were appended to a ledger that already had rows
C3_Witness ==
    /\ issue = "tirage"
    /\ df_gagnants_existants.lignes # <<>>
    /\ df_nouveaux_gagnants # <<>>
    /\ Len(fichier_gagnants.lignes) > Len(df_gagnants_existants.lignes)

\* C4: a candidate row whose ticket id is in the ledger is never in the
\* eligible pool: neither in the pool the last run computed from the ledger
\* it read, nor in the pool a run would compute from the files as they are.
C4_TicketDuLedgerExclu ==
    /\ issue \in ApresEligibilite =>
        \A i \in 1..Len(df_eligibles) :
            df_eligibles[i][ColTicket] \notin Tickets(df_gagnants_existants.lignes)
    /\ \A i \in 1..Len(EligiblesDuTirage) :
            EligiblesDuTirage[i][ColTicket] \notin Tickets(fichier_gagnants.lignes)

\* a candidate the name rule lets through was left out for its ticket alone,
\* and the ledger holds more than one ticket
C4_Witness ==
    /\ issue \in ApresEligibilite
    /\ Cardinality(Tickets(df_gagnants_existants.lignes)) >= 2
    /\ \E i \in 1..Len(df_entree) :
        /\ df_entree[i][ColNom] \notin personnes_ineligibles
        /\ df_entree[i][ColTicket] \in Tickets(df_gagnants_existants.lignes)
        /\ ~Dans(df_eligibles, df_entree[i])

\* C5: when the ledger read has the name and role columns, every name of a
\* ledger row whose role is not Benevole is in the ineligible list and no
\* candidate row with that name is in the eligible pool.
C5_NonBenevoleExclu ==
    (/\ issue \in ApresEligibilite
     /\ df_gagnants_existants.existe
     /\ {ColNom, ColRole} \subseteq df_gagnants_existants.colonnes) =>
        \A n \in Noms :
            LignesAutres(df_gagnants_existants.lignes, n) >= 1 =>
                /\ n \in personnes_ineligibles
                /\ \A i \in 1..Len(df_eligibles) : df_eligibles[i][ColNom] # n

\* a candidate with a fresh ticket was left out because its name had won once
\* with a role other than Benevole
C5_Witness ==
    /\ issue \in ApresEligibilite
    /\ \E i \in 1..Len(df_entree) :
        /\ LignesAutres(df_gagnants_existants.lignes, df_entree[i][ColNom]) = 1
        /\ LignesBenevole(df_gagnants_existants.lignes, df_entree[i][ColNom]) = 0
        /\ df_entree[i][ColTicket] \notin Tickets(df_gagnants_existants.lignes)
        /\ df_entree[i][ColRole] = "Benevole"
        /\ ~Dans(df_eligibles, df_entree[i])

\* C6 as stated, over ledgers that have the name, role and ticket columns: a
\* Volunteer who has won exactly once has their candidate record in the
\* eligible pool of the next run, and a Volunteer's record is left out only
\* once the ledger holds two or more Benevole rows for the name.
C6_BenevoleEncoreEligible ==
    (/\ issue \in ApresEligibilite
     /\ {ColNom, ColRole, ColTicket} \subseteq df_gagnants_existants.colonnes) =>
        \A i \in 1..Len(df_entree) :
            LET r == df_entree[i]
                l == df_gagnants_existants.lignes
            IN  (r[ColRole] = "Benevole" /\ LignesAutres(l, r[ColNom]) = 0) =>
                    /\ LignesBenevole(l, r[ColNom]) = 1 => Dans(df_eligibles, r)
                    /\ ~Dans(df_eligibles, r) => LignesBenevole(l, r[ColNom]) >= 2

\* C6 amended: a name whose only ledger row is one Benevole row is not in the
\* ineligible list, and a candidate row with that name is in the eligible pool
\* exactly when its ticket id is not in the ledger; a name with no ledger row
\* of another role is in the ineligible list only with two or more Benevole rows.
C6_BenevoleExcluPourTicketSeulement ==
    issue \in ApresEligibilite =>
        LET l == df_gagnants_existants.lignes
        IN  /\ \A n \in Noms :
                (LignesBenevole(l, n) = 1 /\ LignesAutres(l, n) = 0) =>
                    /\ n \notin personnes_ineligibles
                    /\ \A i \in 1..Len(df_entree) :
                        df_entree[i][ColNom] = n =>
                            (Dans(df_eligibles, df_entree[i])
                                <=> df_entree[i][ColTicket] \notin Tickets(l))
            /\ \A n \in personnes_ineligibles :
                LignesAutres(l, n) = 0 => LignesBenevole(l, n) >= 2

\* a Volunteer with one win in the ledger wins a second time
C6_Witness ==
    /\ issue = "tirage"
    /\ \E i \in 1..Len(df_nouveaux_gagnants) :
        LET n == df_nouveaux_gagnants[i][ColNom]
        IN  /\ LignesBenevole(df_gagnants_existants.lignes, n) = 1
            /\ LignesAutres(df_gagnants_existants.lignes, n) = 0
            /\ LignesBenevole(fichier_gagnants.lignes, n) = 2

\* C7: a run whose requested count exceeds the size of its eligible pool
\* draws nobody and leaves the ledger file as it was.
C7_PasDeTiragePartiel ==
    [][(/\ issue' \in ApresEligibilite
        /\ saisie' # NonLue
        /\ ~IntRaises(saisie')
        /\ IntOf(saisie') > Len(df_eligibles')) =>
            /\ fichier_gagnants' = fichier_gagnants
            /\ df_nouveaux_gagnants' = <<>>
            /\ issue' # "tirage"]_vars

\* a run asked for more winners than a non-empty pool over a non-empty ledger held
C7_Witness ==
    /\ issue = "pas_assez"
    /\ IntOf(saisie) > Len(df_eligibles)
    /\ fichier_gagnants.lignes # <<>>
    /\ fichier_gagnants = df_gagnants_existants

\* C8: a run whose count is not an integer, or is zero or negative, samples
\* no winner and leaves the ledger file as it was.
C8_SaisieRefusee ==
    [][(/\ issue' \in ApresEligibilite
        /\ saisie' # NonLue
        /\ (IntRaises(saisie') \/ IntOf(saisie') <= 0)) =>
            /\ fichier_gagnants' = fichier_gagnants
            /\ df_nouveaux_gagnants' = <<>>
            /\ issue' # "tirage"]_vars

\* the operator answered zero on a first run, and no ledger file was created
C8_Witness ==
    /\ issue = "nb_non_positif"
    /\ saisie = <<"0">>
    /\ ~fichier_gagnants.existe

SansHeure(r) == [c \in ColonnesCandidats |-> r[c]]

\* C9: a step leaves the ledger as it was, or adds after its rows exactly
\* `count` rows that are pairwise distinct rows of the run's eligible pool
\* (stamped with the draw time).
C9_ToutOuRien ==
    [][\/ fichier_gagnants' = fichier_gagnants
       \/ /\ saisie' # NonLue
          /\ ~IntRaises(saisie')
          /\ Prefixe(fichier_gagnants.lignes, fichier_gagnants'.lignes)
          /\ Len(fichier_gagnants'.lignes)
                = Len(fichier_gagnants.lignes) + IntOf(saisie')
          /\ \A i \in (Len(fichier_gagnants.lignes) + 1)..Len(fichier_gagnants'.lignes) :
                /\ Dans(df_eligibles', SansHeure(fichier_gagnants'.lignes[i]))
                /\ \A j \in (Len(fichier_gagnants.lignes) + 1)..Len(fichier_gagnants'.lignes) :
                    i # j => fichier_gagnants'.lignes[i] # fichier_gagnants'.lignes[j]]_vars

\* two winners were drawn at once and written after the rows of the ledger
C9_Witness ==
    /\ issue = "tirage"
    /\ Len(df_nouveaux_gagnants) = 2
    /\ Len(df_eligibles) >= 2
    /\ Len(fichier_gagnants.lignes) = Len(df_gagnants_existants.lignes) + 2

\* the (name, email) pairs of a table; a pair is a name with an email
Paires(df) ==
    {<<df[i].nom_du_participant, df[i].email>> :
        i \in {k \in 1..Len(df) : df[k].nom_du_participant # NaN /\ df[k].email # NaN}}

PaireDeLigne(r) == <<r.nom_du_participant, r.email>>

\* C10 as stated, the input having at least one row with a name, an email and
\* an answer: the (name, email) pairs of the pivot output are those of the
\* input rows, each on one output row.
C10_PairesDeLEntree ==
    (etape_pivot = "pivot" /\ Paires(df_responses) # {}) =>
        /\ Paires(df_pivot) = Paires(df_filled)
        /\ \A i, j \in 1..Len(df_pivot) :
            i # j => PaireDeLigne(df_pivot[i]) # PaireDeLigne(df_pivot[j])

\* C10 amended: when at least one input row has a name, an email and an
\* answer, the pairs of the output are the pairs of the input rows that have
\* an answer, each on one output row, and no output row lacks its name or email.
C10_PairesAvecReponse ==
    (etape_pivot = "pivot" /\ Paires(df_responses) # {}) =>
        /\ Paires(df_pivot) = Paires(DropNaReponses(df_filled))
        /\ \A i \in 1..Len(df_pivot) :
            df_pivot[i].nom_du_participant # NaN /\ df_pivot[i].email # NaN
        /\ \A i, j \in 1..Len(df_pivot) :
            i # j => PaireDeLigne(df_pivot[i]) # PaireDeLigne(df_pivot[j])

\* a pair whose rows are not contiguous came out on one row, next to the row
\* of the pair in between
C10_Witness ==
    /\ etape_pivot = "pivot"
    /\ Len(df_responses) = 3
    /\ PaireDeLigne(df_responses[1]) = PaireDeLigne(df_responses[3])
    /\ df_responses[2].nom_du_participant # df_responses[1].nom_du_participant
    /\ df_responses[2].email # df_responses[1].email
    /\ Paires(df_responses) = Paires(df_filled)
    /\ Cardinality(Paires(df_responses)) = 2
    /\ Len(df_pivot) = 2

\* the answers of a pair in a table, in row order
ReponsesDuGroupe(df, paire) ==
    LET lignes == SelectSeq(df, LAMBDA r :
            PaireDeLigne(r) = paire /\ r.reponses_des_participants # NaN)
    IN  [i \in 1..Len(lignes) |-> lignes[i].reponses_des_participants]

\* every row of the table has its name and its email
IdentitesCompletes(df) ==
    \A i \in 1..Len(df) : df[i].nom_du_participant # NaN /\ df[i].email # NaN

\* every row of the file has its name and its answer (the email may be missing)
NomsEtReponsesPresents(df) ==
    \A i \in 1..Len(df) :
        df[i].nom_du_participant # NaN /\ df[i].reponses_des_participants # NaN

\* C11, on the files where every row has a name and an answer: for every
\* participant of the pivot output, the i-th answer of the participant (from
\* 0, in row order) is in column reponse_(i+1), and the other answer columns
\* of the row are null.
C11_ReponsesDansLOrdre ==
    (/\ etape_pivot = "pivot"
     /\ NomsEtReponsesPresents(fichier_cleaned)
     /\ Paires(df_responses) # {}) =>
        \A k \in 1..Len(df_pivot) :
            LET rep == ReponsesDuGroupe(df_filled, PaireDeLigne(df_pivot[k]))
                cellules == df_pivot[k].reponses
            IN  /\ \A i \in 1..Len(rep) :
                    /\ <<"reponse_", i>> \in DOMAIN cellules
                    /\ cellules[<<"reponse_", i>>] = rep[i]
                /\ \A c \in DOMAIN cellules :
                    (c[1] # "reponse_" \/ c[2] > Len(rep)) => cellules[c] = NaN

\* how many times an answer value is in the rows of a pair: in the file as
\* read (the pair being the one the fill gives the row), and in the output
NbDansFichier(paire, v) ==
    Cardinality({i \in 1..Len(fichier_cleaned) :
        /\ fichier_cleaned[i].reponses_des_participants = v
        /\ PaireDeLigne(df_filled[i]) = paire})

NbDansPivot(paire, v) ==
    Cardinality({kc \in UNION {{<<k, c>> : c \in DOMAIN df_pivot[k].reponses} :
                                k \in 1..Len(df_pivot)} :
        /\ PaireDeLigne(df_pivot[kc[1]]) = paire
        /\ df_pivot[kc[1]].reponses[kc[2]] = v})

\* C12, on the files where every row has a name and an email: each answer
\* value is in the output row of a participant as many times as it is in the
\* rows of that participant in the file.
C12_NiDoubleNiPerdu ==
    (etape_pivot = "pivot" /\ IdentitesCompletes(fichier_cleaned)) =>
        \A paire \in Identites, v \in Reponses \ {NaN} :
            NbDansPivot(paire, v) = NbDansFichier(paire, v)

\* the returns of main that come after the eligible pool is computed and
\* before anything is drawn
SansTirage == ApresEligibilite \ {"tirage"}

IssuesDeMain == ApresEligibilite \cup {"aucun_participant"}

\* C14: after a run, when one candidate file is absent the candidate pool is
\* the rows of the other file, and the run goes past the pool whenever that
\* file has a row; when both are absent the pool is empty and the run returns
\* with the ledger neither read nor written.
C14_FichierAbsentNonFatal ==
    [][issue' \in IssuesDeMain =>
        /\ (~fichier_visiteurs.existe /\ fichier_benevoles.existe) =>
            /\ df_entree' = fichier_benevoles.lignes
            /\ (issue' = "aucun_participant") = (fichier_benevoles.lignes = <<>>)
        /\ (fichier_visiteurs.existe /\ ~fichier_benevoles.existe) =>
            /\ df_entree' = fichier_visiteurs.lignes
            /\ (issue' = "aucun_participant") = (fichier_visiteurs.lignes = <<>>)
        /\ (~fichier_visiteurs.existe /\ ~fichier_benevoles.existe) =>
            /\ df_entree' = <<>>
            /\ issue' = "aucun_participant"
            /\ df_gagnants_existants' = AbsentFile
            /\ fichier_gagnants' = fichier_gagnants]_vars

\* a run drew among the volunteers, the visitors' file being absent
C14_Witness ==
    /\ issue = "tirage"
    /\ ~fichier_visiteurs.existe
    /\ fichier_benevoles.existe
    /\ df_entree = fichier_benevoles.lignes
    /\ df_nouveaux_gagnants # <<>>

\* the non-null answer cells of the output row of a pair
CellulesNonNulles(paire) ==
    {kc \in UNION {{<<k, c>> : c \in DOMAIN df_pivot[k].reponses} :
                    k \in 1..Len(df_pivot)} :
        /\ PaireDeLigne(df_pivot[kc[1]]) = paire
        /\ df_pivot[kc[1]].reponses[kc[2]] # NaN}

\* the rows of a pair that have an answer in the file as read
LignesAvecReponse(paire) ==
    {i \in 1..Len(fichier_cleaned) :
        /\ PaireDeLigne(fichier_cleaned[i]) = paire
        /\ fichier_cleaned[i].reponses_des_participants # NaN}

\* C15, on the files where every row has a name and an email: a row with no
\* answer gives no answer to anyone, each participant has as many non-null
\* output cells as rows with an answer in the file.
C15_SansReponseSansCellule ==
    (etape_pivot = "pivot" /\ IdentitesCompletes(fichier_cleaned)) =>
        \A paire \in Identites :
            Cardinality(CellulesNonNulles(paire)) = Cardinality(LignesAvecReponse(paire))

\* the number of answers of the participant of an output row
NbReponses(k) == Len(ReponsesDuGroupe(df_filled, PaireDeLigne(df_pivot[k])))

\* the largest number of answers of a participant of the output
MaxNbReponses ==
    CHOOSE m \in 0..Len(df_filled) :
        /\ \A k \in 1..Len(df_pivot) : NbReponses(k) <= m
        /\ m = 0 \/ \E k \in 1..Len(df_pivot) : NbReponses(k) = m

\* C16, on the files where every row has a name and an answer: the answer
\* columns of the output are reponse_1..reponse_k, k the largest number of
\* answers of a participant, and the row of a participant with m answers is
\* non-null in reponse_1..reponse_m and null after.
C16_ColonnesJusquAK ==
    (/\ etape_pivot = "pivot"
     /\ NomsEtReponsesPresents(fichier_cleaned)
     /\ Paires(df_responses) # {}) =>
        \A k \in 1..Len(df_pivot) :
            /\ DOMAIN df_pivot[k].reponses = {<<"reponse_", i>> : i \in 1..MaxNbReponses}
            /\ \A i \in 1..MaxNbReponses :
                <<"reponse_", i>> \in DOMAIN df_pivot[k].reponses =>
                    (df_pivot[k].reponses[<<"reponse_", i>>] # NaN) = (i <= NbReponses(k))

\* C17: when the ledger read by a run is absent or has no row, no name is
\* ineligible and the eligible pool is the candidate pool, row for row.
C17_LedgerVideToutEligible ==
    (/\ issue \in ApresEligibilite
     /\ (~df_gagnants_existants.existe \/ df_gagnants_existants.lignes = <<>>)) =>
        /\ personnes_ineligibles = {}
        /\ df_eligibles = df_entree

\* a run read a ledger file that has no row and kept its two candidates
C17_Witness ==
    /\ issue \in ApresEligibilite
    /\ df_gagnants_existants.existe
    /\ df_gagnants_existants.lignes = <<>>
    /\ Len(df_entree) = 2
    /\ df_eligibles = df_entree

\* the ledger read by the run has a row and lacks the name or the role column
LedgerDegrade(df) ==
    /\ df.existe
    /\ df.lignes # <<>>
    /\ (ColNom \notin df.colonnes \/ ColRole \notin df.colonnes)

\* C18: when the ledger has a row and lacks the name or the role column, a
\* run with candidates goes on to the eligible pool as with any other ledger:
\* no name is ineligible and the eligible pool is the candidate rows whose
\* ticket is not in the ledger.
C18_ModeDegrade ==
    [][(issue' \in IssuesDeMain /\ LedgerDegrade(fichier_gagnants) /\ Entree # <<>>) =>
        /\ issue' \in ApresEligibilite
        /\ personnes_ineligibles' = {}
        /\ df_eligibles' = SelectSeq(df_entree', LAMBDA r :
                r[ColTicket] \notin Tickets(fichier_gagnants.lignes))]_vars

\* a ledger without the name column kept the ticket of its row out of the pool
\* and let the other candidate in
C18_Witness ==
    /\ issue \in ApresEligibilite
    /\ LedgerDegrade(df_gagnants_existants)
    /\ ColNom \notin df_gagnants_existants.colonnes
    /\ Len(df_entree) = 2
    /\ Len(df_eligibles) = 1
    /\ personnes_ineligibles = {}

\* the rows that a step added after the rows of the ledger
LignesAjoutees ==
    SubSeq(fichier_gagnants'.lignes,
           Len(fichier_gagnants.lignes) + 1, Len(fichier_gagnants'.lignes))

\* C19: the rows a draw adds all carry one draw time, a time the clock of the
\* run can give, and no step changes the heure_du_tirage of a row that is
\* already in the ledger.
C19_HeureDuTirage ==
    [][/\ \A i \in 1..Len(fichier_gagnants.lignes) :
            /\ i <= Len(fichier_gagnants'.lignes)
            /\ fichier_gagnants'.lignes[i][ColHeure] = fichier_gagnants.lignes[i][ColHeure]
       /\ issue' = "tirage" =>
            \E t \in Instants :
                \A i \in 1..Len(LignesAjoutees) :
                    LignesAjoutees[i][ColHeure] = Strftime(t)]_vars

\* a draw added two winners to a ledger whose row has another draw time
C19_Witness ==
    /\ issue = "tirage"
    /\ Len(df_nouveaux_gagnants) = 2
    /\ Len(df_gagnants_existants.lignes) = 1
    /\ Len(fichier_gagnants.lignes) = 3
    /\ fichier_gagnants.lignes[1][ColHeure] = 0
    /\ fichier_gagnants.lignes[2][ColHeure] = 1
    /\ fichier_gagnants.lignes[3][ColHeure] = 1

\* C20: when the two runs have both read the ledger before either wrote it
\* and both have written, the ledger is the ledger as the last writer read it
\* followed by the winners of the last writer alone; both runs read the same
\* ledger, and a winner of the first writer is in the file only if the last
\* writer drew the same row at the same time.
C20_DernierEcrivainGagne ==
    \A p, q \in Processus :
        (/\ p # q
         /\ executions[p].etape = "ecrit" /\ executions[q].etape = "ecrit"
         /\ executions[p].ecritures_vues = 0 /\ executions[q].ecritures_vues = 0
         /\ executions[q].rang = 2) =>
            /\ executions[p].df_gagnants_existants = executions[q].df_gagnants_existants
            /\ fichier_gagnants.lignes =
                    executions[q].df_gagnants_existants.lignes
                        \o executions[q].df_nouveaux_gagnants
            /\ \A i \in 1..Len(executions[p].df_nouveaux_gagnants) :
                Dans(fichier_gagnants.lignes, executions[p].df_nouveaux_gagnants[i]) =>
                    Dans(executions[q].df_nouveaux_gagnants,
                         executions[p].df_nouveaux_gagnants[i])

\* both runs read an absent ledger and drew ticket 1; the first writer also
\* drew ticket 2, which the file no longer holds
C20_Witness ==
    /\ executions[1].etape = "ecrit" /\ executions[2].etape = "ecrit"
    /\ executions[1].ecritures_vues = 0 /\ executions[2].ecritures_vues = 0
    /\ executions[1].rang = 1 /\ executions[2].rang = 2
    /\ Tickets(executions[1].df_nouveaux_gagnants) = {1, 2}
    /\ Tickets(executions[2].df_nouveaux_gagnants) = {1}
    /\ Tickets(fichier_gagnants.lignes) = {1}

\* the nearest value of a column at or above a row of the file, NaN when
\* every cell from the top down to the row is empty
ValeurAuDessus(df, i, col) ==
    LET pleines == {j \in 1..i : df[j][col] # NaN}
    IN  IF pleines = {} THEN NaN
        ELSE df[CHOOSE j \in pleines : \A k \in pleines : k <= j][col]

\* the rows of the file that have an answer and lack their name or their email
LignesSansIdentite ==
    {i \in 1..Len(fichier_cleaned) :
        /\ fichier_cleaned[i].reponses_des_participants # NaN
        /\ (fichier_cleaned[i].nom_du_participant = NaN
                \/ fichier_cleaned[i].email = NaN)}

\* C21 as stated, on the files whose first row has its name and its email:
\* the pivot does not complete when a row with an answer lacks its name or
\* its email.
C21_LigneSansIdentiteRejetee ==
    (/\ etape_pivot = "pivot"
     /\ fichier_cleaned # <<>>
     /\ IdentitesCompletes(<<fichier_cleaned[1]>>)
     /\ Paires(df_responses) # {}) =>
        LignesSansIdentite = {}

\* C21 amended, at least one row having a name, an email and an answer after
\* the fill: the pivot completes; a row with an answer that lacks its name or
\* its email takes each missing one from the nearest row above that has it,
\* and its answer is in the output row of the pair so made; when no row above
\* has it, the row is in no output row (no output row lacks its name or its
\* email).
C21_LigneSansIdentiteAttribuee ==
    (etape_pivot = "pivot" /\ Paires(df_responses) # {}) =>
        /\ \A i \in LignesSansIdentite :
            LET nom == ValeurAuDessus(fichier_cleaned, i, "nom_du_participant")
                email == ValeurAuDessus(fichier_cleaned, i, "email")
            IN  (nom # NaN /\ email # NaN) =>
                    \E k \in 1..Len(df_pivot) :
                        /\ PaireDeLigne(df_pivot[k]) = <<nom, email>>
                        /\ \E c \in DOMAIN df_pivot[k].reponses :
                            df_pivot[k].reponses[c]
                                = fichier_cleaned[i].reponses_des_participants
        /\ \A k \in 1..Len(df_pivot) :
            df_pivot[k].nom_du_participant # NaN /\ df_pivot[k].email # NaN

\* a row with no name and no email went to the participant of the row above,
\* whose own answer is another one
C21_Witness ==
    /\ etape_pivot = "pivot"
    /\ Len(fichier_cleaned) = 2
    /\ fichier_cleaned[1] = [nom_du_participant |-> "Alice", email |-> "a@x",
                             reponses_des_participants |-> "Oui"]
    /\ fichier_cleaned[2] = [nom_du_participant |-> NaN, email |-> NaN,
                             reponses_des_participants |-> "Non"]
    /\ Len(df_pivot) = 1
    /\ Cardinality(CellulesNonNulles(<<"Alice", "a@x">>)) = 2

\* a row of the pool or of the ledger is the cleaned form of the raw row that
\* has its ticket number, a present visitor or a present volunteer
CandidatLegitime(r) ==
    /\ r[ColRole] \in {"Visiteur", "Benevole"}
    /\ r[ColStatus] = "present"
    /\ r[ColTicket] \in 1..Len(input_file)
    /\ NormalizeTicket(input_file[r[ColTicket]].ticket_devenement) = r[ColRole]
    /\ CleanStatus(input_file[r[ColTicket]].status) = "present"

\* C24: every row of the candidate pool of a run, and every row that a run
\* adds to the ledger, has the normalized role Visiteur or Benevole and the
\* status 'present', as has the raw row it comes from once cleaned.
C24_SeulsPresentsVisiteursBenevoles ==
    [][/\ \A i \in 1..Len(df_entree') : CandidatLegitime(df_entree'[i])
       /\ \A i \in 1..Len(LignesAjoutees) : CandidatLegitime(LignesAjoutees[i])]_vars

\* the export holds a present sponsor and a present visitor, and the run drew
\* in a pool of one row, the visitor's
C24_Witness ==
    /\ issue = "tirage"
    /\ Len(input_file) = 2
    /\ input_file[1].ticket_devenement = "Commanditaire"
    /\ input_file[1].status = "Présent"
    /\ input_file[2].ticket_devenement = "Visiteur"
    /\ Len(df_entree) = 1
    /\ Tickets(fichier_gagnants.lignes) = {2}

\* C23: once a run has drawn, the eligible pool that the next run computes
\* from the same candidate files is smaller than the pool of the draw by at
\* least the number of winners drawn; and from some step on no run draws any
\* more, every run returns with the ledger as it was.
C23_PoolEpuise ==
    /\ [](issue = "tirage" =>
            Len(EligiblesDuTirage) + Len(df_nouveaux_gagnants) <= Len(df_eligibles))
    /\ <>[][issue' # "tirage" /\ fichier_gagnants' = fichier_gagnants]_vars

\* after two draws of one winner each in a pool of two rows, no ticket is left
C23_Witness ==
    /\ issue = "plus_de_tickets"
    /\ Len(df_entree) = 2
    /\ Len(fichier_gagnants.lignes) = 2
    /\ fichier_gagnants.lignes[1][ColHeure] # fichier_gagnants.lignes[2][ColHeure]
    /\ EligiblesDuTirage = <<>>

\* C25: when the ledger read by a run exists and has no ticket column, the
\* eligible pool is the candidate rows whose name is not ineligible, whatever
\* their ticket; the ineligible names are those of the name rule.
C25_SansColonneTicket ==
    (/\ issue \in ApresEligibilite
     /\ df_gagnants_existants.existe
     /\ ColTicket \notin df_gagnants_existants.colonnes) =>
        /\ df_eligibles =
                SelectSeq(df_entree, LAMBDA r : r[ColNom] \notin personnes_ineligibles)
        /\ personnes_ineligibles =
                {n \in Noms :
                    \/ LignesAutres(df_gagnants_existants.lignes, n) >= 1
                    \/ LignesBenevole(df_gagnants_existants.lignes, n) >= 2}

\* the ledger has no ticket column and one row, Alice's as a visitor: her
\* candidate row is out by the name rule, Bob's is in
C25_Witness ==
    /\ issue \in ApresEligibilite
    /\ df_gagnants_existants.existe
    /\ ColTicket \notin df_gagnants_existants.colonnes
    /\ personnes_ineligibles = {"Alice"}
    /\ Len(df_entree) = 2
    /\ Len(df_eligibles) = 1
    /\ df_eligibles[1][ColNom] = "Bob"

====
